---- MODULE Spec2Model ----
(***************************************************************************)
(* david: access-control layer in front of a WebDAV engine.                *)
(* Strings that the code inspects character by character (paths, names,    *)
(* permission strings) are sequences of one-character strings.             *)
(***************************************************************************)
EXTENDS Integers, Sequences, FiniteSets, TLC

VARIABLES Dir, Users, Log, cruds, fs, req, reload, probe

vars == <<Dir, Users, Log, cruds, fs, req, reload, probe>>

(***************************************************************************)
(* Bounds                                                                  *)
(***************************************************************************)
MaxNameLen == 5

(***************************************************************************)
(* Characters and general helpers                                          *)
(***************************************************************************)
NUL == "NUL"
Slash == "/"
Dot == "."

RECURSIVE SeqsUpTo(_, _)
SeqsUpTo(S, n) ==
    IF n = 0 THEN {<<>>}
    ELSE LET shorter == SeqsUpTo(S, n - 1)
         IN shorter \cup {Append(s, c) : s \in {t \in shorter : Len(t) = n - 1}, c \in S}

Contains(s, c) == \E i \in 1..Len(s) : s[i] = c

(***************************************************************************)
(* path.Clean / filepath.Clean (POSIX build, Separator = '/')              *)
(***************************************************************************)
RECURSIVE CleanBacktrack(_, _, _)
CleanBacktrack(out, w, dotdot) ==
    IF w > dotdot /\ out[w + 1] # Slash
    THEN CleanBacktrack(out, w - 1, dotdot)
    ELSE SubSeq(out, 1, w)

RECURSIVE SegmentEnd(_, _)
SegmentEnd(p, r) ==
    IF r <= Len(p) /\ p[r] # Slash THEN SegmentEnd(p, r + 1) ELSE r

RECURSIVE CleanLoop(_, _, _, _)
CleanLoop(p, r, out, dotdot) ==
    LET n == Len(p)
        rooted == p[1] = Slash
    IN  IF r > n THEN out
        ELSE IF p[r] = Slash THEN CleanLoop(p, r + 1, out, dotdot)
        ELSE IF p[r] = Dot /\ (r = n \/ p[r + 1] = Slash)
             THEN CleanLoop(p, r + 1, out, dotdot)
        ELSE IF p[r] = Dot /\ p[r + 1] = Dot /\ (r + 1 = n \/ p[r + 2] = Slash)
             THEN IF Len(out) > dotdot
                  THEN CleanLoop(p, r + 2,
                                 CleanBacktrack(out, Len(out) - 1, dotdot), dotdot)
                  ELSE IF ~rooted
                  THEN LET o2 == (IF Len(out) > 0 THEN Append(out, Slash) ELSE out)
                                 \o <<Dot, Dot>>
                       IN CleanLoop(p, r + 2, o2, Len(o2))
                  ELSE CleanLoop(p, r + 2, out, dotdot)
        ELSE LET o1 == IF (rooted /\ Len(out) # 1) \/ (~rooted /\ Len(out) # 0)
                       THEN Append(out, Slash) ELSE out
                 e  == SegmentEnd(p, r)
             IN CleanLoop(p, e, o1 \o SubSeq(p, r, e - 1), dotdot)

Clean(p) ==
    IF p = <<>> THEN <<Dot>>
    ELSE LET rooted == p[1] = Slash
             out == CleanLoop(p, IF rooted THEN 2 ELSE 1,
                              IF rooted THEN <<Slash>> ELSE <<>>,
                              IF rooted THEN 1 ELSE 0)
         IN IF out = <<>> THEN <<Dot>> ELSE out

(* filepath.Join: drop leading empty elements, join the rest with '/', Clean *)
RECURSIVE JoinSep(_)
JoinSep(elems) ==
    IF Len(elems) = 1 THEN elems[1]
    ELSE elems[1] \o <<Slash>> \o JoinSep(Tail(elems))

RECURSIVE Join(_)
Join(elems) ==
    IF elems = <<>> THEN <<>>
    ELSE IF elems[1] = <<>> THEN Join(Tail(elems))
    ELSE Clean(JoinSep(elems))

(***************************************************************************)
(* "Lies at or beneath": p is root itself or root followed by further      *)
(* path elements none of which is "..".  Both are cleaned paths.           *)
(***************************************************************************)
RECURSIVE Segs(_, _)
Segs(p, r) ==
    IF r > Len(p) THEN <<>>
    ELSE IF p[r] = Slash THEN Segs(p, r + 1)
    ELSE LET e == SegmentEnd(p, r)
         IN <<SubSeq(p, r, e - 1)>> \o Segs(p, e)

Elements(p) == SelectSeq(Segs(p, 1), LAMBDA e : e # <<Dot>>)
IsAbs(p) == p # <<>> /\ p[1] = Slash

Under(p, root) ==
    LET ps == Elements(p)
        rs == Elements(root)
    IN /\ p # <<>>
       /\ IsAbs(p) = IsAbs(root)
       /\ Len(rs) <= Len(ps)
       /\ SubSeq(ps, 1, Len(rs)) = rs
       /\ \A i \in (Len(rs) + 1)..Len(ps) : ps[i] # <<Dot, Dot>>

(***************************************************************************)
(* Data model: CrudType, UserInfo, Config, AuthInfo                        *)
(***************************************************************************)
(* src/app/crud.go: CrudType; objects live in the heap `cruds`, a *CrudType *)
(* is a heap index, NilPtr is the nil pointer.                              *)
NilPtr == 0
TestCrudPtr == 99
NumCruds == 4
CrudIds == 1..NumCruds
FreeCell == [free |-> TRUE]
NewCrud(s) == [Crud |-> s, Create |-> FALSE, Read |-> FALSE,
               Update |-> FALSE, Delete |-> FALSE]
testCrudType == NewCrud(<<>>)

(* a Go map: NilMap is the nil map, otherwise a function on its keys *)
NilMap == [nilmap |-> TRUE]
NoUser == [nil |-> TRUE]
Keys(us) == IF us = NilMap THEN {} ELSE DOMAIN us
Lookup(us, u) == IF u \in Keys(us) THEN us[u] ELSE NoUser
MapLen(us) == Cardinality(Keys(us))

\* an optional string (Go *string): <<>> is nil, <<s>> points to s
NoSubdir == <<>>

Deref(h, ptr) == IF ptr = TestCrudPtr THEN testCrudType ELSE h[ptr]

(***************************************************************************)
(* FormatCrud (src/app/crud.go)                                            *)
(***************************************************************************)
ErrNil == "nil"

ToLowerCh(c) ==
    CASE c = "C" -> "c" [] c = "R" -> "r" [] c = "U" -> "u" [] c = "D" -> "d"
      [] c = "X" -> "x" [] OTHER -> c
ToLower(s) == [i \in 1..Len(s) |-> ToLowerCh(s[i])]

\* FormatCrud accepting a permission string of any length
CrudLengthUnchecked(s) == FALSE

\* the length check of FormatCrud
CrudLengthInvalid(s) == Len(s) < 1 \/ Len(s) > 4

\* FormatCrud reading the letters as they are written, without ToLower
FormatCrudCellCased(c) ==
    IF CrudLengthInvalid(c.Crud)
    THEN [c EXCEPT !.Create = FALSE, !.Read = FALSE, !.Update = FALSE, !.Delete = FALSE]
    ELSE [Crud |-> c.Crud, Create |-> Contains(c.Crud, "c"), Read |-> Contains(c.Crud, "r"),
          Update |-> Contains(c.Crud, "u"), Delete |-> Contains(c.Crud, "d")]

\* the object after FormatCrud has run on it
FormatCrudCell(c) ==
    IF CrudLengthInvalid(c.Crud)
    THEN [c EXCEPT !.Create = FALSE, !.Read = FALSE, !.Update = FALSE, !.Delete = FALSE]
    ELSE LET low == ToLower(c.Crud)
         IN [Crud |-> low, Create |-> Contains(low, "c"), Read |-> Contains(low, "r"),
             Update |-> Contains(low, "u"), Delete |-> Contains(low, "d")]

\* FormatCrud(ctx, name, cfg): mutates the user's CrudType in place
FormatCrud(us, h, name) ==
    LET user == Lookup(us, name)
    IN IF user # NoUser /\ user.Crud # NilPtr
       THEN [h   |-> [h EXCEPT ![user.Crud] = FormatCrudCell(h[user.Crud])],
             err |-> IF CrudLengthInvalid(h[user.Crud].Crud)
                     THEN "invalid CRUD type string" ELSE ErrNil]
       ELSE [h |-> h, err |-> "user or crud not found in config"]

(***************************************************************************)
(* authenticate (src/app/security.go)                                      *)
(***************************************************************************)
NoAuthInfo == [nil |-> TRUE]

\* bcrypt: a hash remembers the password it was generated from
GenHash(pw) == <<"bcrypt", pw>>
CompareHashAndPassword(hash, pw) == hash = GenHash(pw)

\* a server that demands credentials whatever the configuration
AuthenticationAlwaysNeeded(us) == TRUE

AuthenticationNeeded(us) == us # NilMap /\ MapLen(us) # 0

\* no test of the presence of the credentials
CredentialsNeverMissing(username, password) == FALSE

\* authenticate, line 58: username == "" || password == ""
CredentialsMissing(username, password) == username = "" \/ password = ""

\* authenticate without the comparison of the password with the stored hash
authenticateAnyPassword(us, username, password) ==
    IF ~AuthenticationNeeded(us)
    THEN [compared |-> FALSE, panic |-> FALSE, err |-> ErrNil,
          info |-> [Username |-> "", Authenticated |-> FALSE, CrudType |-> TestCrudPtr]]
    ELSE IF CredentialsMissing(username, password)
    THEN [compared |-> FALSE, panic |-> FALSE, err |-> "username not found or password empty",
          info |-> [Username |-> username, Authenticated |-> FALSE, CrudType |-> TestCrudPtr]]
    ELSE LET user == Lookup(us, username)
         IN IF user = NoUser
            THEN [compared |-> FALSE, panic |-> TRUE, err |-> ErrNil, info |-> NoAuthInfo]
            ELSE [compared |-> FALSE, panic |-> FALSE, err |-> ErrNil,
                  info |-> [Username |-> username, Authenticated |-> TRUE,
                            CrudType |-> user.Crud]]

\* result: panic (nil dereference), or the returned (*AuthInfo, error);
\* compared tells whether bcrypt.CompareHashAndPassword has been called
authenticate(us, username, password) ==
    IF ~AuthenticationNeeded(us)
    THEN [compared |-> FALSE, panic |-> FALSE, err |-> ErrNil,
          info |-> [Username |-> "", Authenticated |-> FALSE, CrudType |-> TestCrudPtr]]
    ELSE IF CredentialsMissing(username, password)
    THEN [compared |-> FALSE, panic |-> FALSE, err |-> "username not found or password empty",
          info |-> [Username |-> username, Authenticated |-> FALSE, CrudType |-> TestCrudPtr]]
    ELSE LET user == Lookup(us, username)
         IN IF user = NoUser
            \* crud := cfg.Users[username].Crud dereferences the nil *UserInfo
            \* before the user == nil test is reached
            THEN [compared |-> FALSE, panic |-> TRUE, err |-> ErrNil, info |-> NoAuthInfo]
            ELSE IF ~CompareHashAndPassword(user.Password, password)
            THEN [compared |-> TRUE, panic |-> FALSE, err |-> "Password doesn't match",
                  info |-> [Username |-> username, Authenticated |-> FALSE,
                            CrudType |-> TestCrudPtr]]
            ELSE [compared |-> TRUE, panic |-> FALSE, err |-> ErrNil,
                  info |-> [Username |-> username, Authenticated |-> TRUE,
                            CrudType |-> user.Crud]]

(***************************************************************************)
(* Resolve (src/app/security.go), POSIX build                              *)
(***************************************************************************)
\* an empty base directory handed to filepath.Join as it is
BaseOfKept(dir) == dir

BaseOf(dir) == IF dir = <<>> THEN <<Dot>> ELSE dir

\* Resolve without the slash put in front of the name before cleaning
ResolveUnrooted(authInfo, name, dir, us) ==
    IF Contains(name, NUL) THEN <<>>
    ELSE LET base == BaseOf(dir)
             userInfo == IF authInfo # NoAuthInfo /\ authInfo.Authenticated
                         THEN Lookup(us, authInfo.Username) ELSE NoUser
         IN IF userInfo # NoUser /\ userInfo.Subdir # NoSubdir
            THEN Join(<<base, userInfo.Subdir[1], Clean(name)>>)
            ELSE Join(<<base, Clean(name)>>)

Resolve(authInfo, name, dir, us) ==
    IF Contains(name, NUL) THEN <<>>
    ELSE LET base == BaseOf(dir)
             rooted == Clean(<<Slash>> \o name)
             userInfo == IF authInfo # NoAuthInfo /\ authInfo.Authenticated
                         THEN Lookup(us, authInfo.Username) ELSE NoUser
         IN IF userInfo # NoUser /\ userInfo.Subdir # NoSubdir
            THEN Join(<<base, userInfo.Subdir[1], rooted>>)
            ELSE Join(<<base, rooted>>)

\* the floor of a caller's view: baseDir, or baseDir/subdir for a jailed user
JailRoot(authInfo, dir, us) ==
    LET userInfo == IF authInfo # NoAuthInfo /\ authInfo.Authenticated
                    THEN Lookup(us, authInfo.Username) ELSE NoUser
    IN IF userInfo # NoUser /\ userInfo.Subdir # NoSubdir
       THEN Join(<<BaseOf(dir), userInfo.Subdir[1]>>)
       ELSE Clean(BaseOf(dir))

(***************************************************************************)
(* Heap of CrudType objects                                                *)
(***************************************************************************)
EmptyHeap == [i \in CrudIds |-> FreeCell]

\* objects no pointer reaches any more are reclaimed
Collect(h, us, rq) ==
    LET referenced == {us[u].Crud : u \in Keys(us)}
                      \cup (IF rq.authInfo = NoAuthInfo THEN {}
                            ELSE {rq.authInfo.CrudType})
    IN [i \in CrudIds |-> IF i \in referenced THEN h[i] ELSE FreeCell]

FreshId(h) == CHOOSE i \in CrudIds : h[i] = FreeCell /\ \A j \in CrudIds : h[j] = FreeCell => i <= j

(***************************************************************************)
(* The physical filesystem: the set of existing (cleaned) paths; a path    *)
(* that is a regular file is in the set together with its file mark, a     *)
(* directory is in the set alone.                                          *)
(***************************************************************************)
RootPath == <<Slash>>
Parent(p) == Clean(p \o <<Slash, Dot, Dot>>)
FileMark(p) == <<"file">> \o p
IsMark(q) == q # <<>> /\ q[1] = "file"
Exists(f, p) == p \in f
IsFile(f, p) == p \in f /\ FileMark(p) \in f
IsDir(f, p) == p \in f /\ FileMark(p) \notin f

\* q, or the path q marks, is p or lies beneath p
Covers(q, p) == IF IsMark(q) THEN Under(Tail(q), p) ELSE Under(q, p)

\* os.Mkdir: fails when the path exists or its parent is not a directory
OsMkdirOk(f, p) == p \notin f /\ IsDir(f, Parent(p))
OsMkdir(f, p) == IF OsMkdirOk(f, p) THEN f \cup {p} ELSE f

\* os.RemoveAll: removes the path and everything beneath it
OsRemoveAll(f, p) == {q \in f : ~Covers(q, p)}

\* os.Rename: moves the path and everything beneath it; a directory
\* replaces only an empty directory, a file only a file
RECURSIVE Rebase(_, _, _)
Rebase(q, old, new) ==
    IF IsMark(q)
    THEN FileMark(Rebase(Tail(q), old, new))
    ELSE LET rest == SubSeq(Elements(q), Len(Elements(old)) + 1, Len(Elements(q)))
         IN IF rest = <<>> THEN new ELSE Join(<<new>> \o rest)
OsRenameOk(f, old, new) ==
    /\ old \in f
    /\ IsDir(f, Parent(new))
    /\ ~(new # old /\ Under(new, old))
    /\ (new \in f /\ new # old)
         => /\ IsFile(f, old) = IsFile(f, new)
            /\ \A q \in f : Covers(q, new) => q \in {new, FileMark(new)}
OsRename(f, old, new) ==
    IF OsRenameOk(f, old, new)
    THEN {q \in f : ~Covers(q, old) /\ ~Covers(q, new)}
         \cup {Rebase(q, old, new) : q \in {x \in f : Covers(x, old)}}
    ELSE f

\* os.Stat
OsStatOk(f, p) == p \in f

\* os.OpenFile: the access mode and O_CREATE of the flag argument
ReadOnly == [access |-> "O_RDONLY", create |-> FALSE]
WantsWrite(flag) == flag.access \in {"O_WRONLY", "O_RDWR"}
OsOpenFileOk(f, p, flag) ==
    IF p \in f
    THEN IsFile(f, p) \/ (~WantsWrite(flag) /\ ~flag.create)
    ELSE flag.create /\ IsDir(f, Parent(p))
OsOpenFile(f, p, flag) ==
    IF OsOpenFileOk(f, p, flag) /\ p \notin f THEN f \cup {p, FileMark(p)} ELSE f

(***************************************************************************)
(* Config.createBaseAndUserDirectoriesIfNeeded (src/app/config.go)         *)
(***************************************************************************)
RECURSIVE MkUserDirs(_, _, _, _)
MkUserDirs(f, dir, us, todo) ==
    IF todo = {} THEN f
    ELSE LET u == CHOOSE x \in todo : TRUE
             path == Join(<<dir, us[u].Subdir[1]>>)
             f2 == IF us[u].Subdir # NoSubdir /\ ~Exists(f, path)
                   THEN OsMkdir(f, path) ELSE f
         IN MkUserDirs(f2, dir, us, todo \ {u})

createBaseAndUserDirectoriesIfNeeded(f, dir, us) ==
    IF dir = <<>> \/ (~Exists(f, Clean(dir)) /\ ~OsMkdirOk(f, Clean(dir)))
    THEN f
    ELSE MkUserDirs(OsMkdir(f, Clean(dir)), dir, us, Keys(us))

(***************************************************************************)
(* Configurations as unmarshalled from the file (viper.Unmarshal): every   *)
(* user record arrives with Crud = nil; a file without users leaves the    *)
(* Users map nil.                                                          *)
(***************************************************************************)
DeclUser(pw, sub, perm) ==
    [Password |-> GenHash(pw), Subdir |-> sub, Permissions |-> perm, Crud |-> NilPtr]

LogAll(b) ==
    [Debug |-> TRUE, Error |-> b, Create |-> b, Read |-> b, Update |-> b, Delete |-> b]

\* var updatedCfg = &Config{}: the zero Config
ZeroLog == [Debug |-> FALSE, Error |-> FALSE, Create |-> FALSE, Read |-> FALSE,
            Update |-> FALSE, Delete |-> FALSE]
ZeroConfig == [Users |-> NilMap, Log |-> ZeroLog]

(***************************************************************************)
(* ParseConfig (src/app/config.go): the state after startup                *)
(***************************************************************************)
RECURSIVE ParseUsers(_, _, _)
ParseUsers(us, h, todo) ==
    IF todo = {} THEN [Users |-> us, cruds |-> h]
    ELSE LET u  == CHOOSE x \in todo : TRUE
             id == FreshId(h)
             h1 == [h EXCEPT ![id] = NewCrud(us[u].Permissions)]
             u1 == [us EXCEPT ![u].Crud = id]
         IN ParseUsers(u1, FormatCrud(u1, h1, u).h, todo \ {u})

ParseConfig(decl) == ParseUsers(decl.Users, EmptyHeap, Keys(decl.Users))

\* what exists on disk before the server starts
DiskBefore == {RootPath, <<Dot>>}

(***************************************************************************)
(* What a reader can see of the live configuration: the user map with      *)
(* every permission set dereferenced, and the logging toggles.             *)
(***************************************************************************)
NoCrud == [nil |-> TRUE]
UserView(h, user) ==
    [Password |-> user.Password, Subdir |-> user.Subdir, Permissions |-> user.Permissions,
     Crud |-> IF user.Crud = NilPtr THEN NoCrud ELSE h[user.Crud]]
ConfigView(us, h, lg) ==
    [Users |-> [u \in Keys(us) |-> UserView(h, us[u])], Log |-> lg]
LiveView == ConfigView(Users, cruds, Log)

(***************************************************************************)
(* Reload: Config.handleConfigUpdate and updateConfig (src/app/config.go)  *)
(***************************************************************************)
\* a delete that removes nothing
DeleteUserNot(us, u) == us

\* delete(cfg.Users, username); deleting from a nil map is a no-op
DeleteUser(us, u) == IF us = NilMap THEN us ELSE [x \in Keys(us) \ {u} |-> us[x]]

\* cfg.Users[username] = userInformationChange (on a non-nil map)
AddUser(us, u, rec) == [x \in Keys(us) \cup {u} |-> IF x = u THEN rec ELSE us[x]]

\* cfg.Users[username].Crud = &CrudType{Crud: ...Permissions}
AllocCrud(us, h, u, perm, rq) ==
    LET id == FreshId(h)
        u1 == [us EXCEPT ![u].Crud = id]
    IN [Users |-> u1, cruds |-> Collect([h EXCEPT ![id] = NewCrud(perm)], u1, rq)]

\* the first loop of updateConfig
RECURSIVE RemoveAbsent(_, _, _)
RemoveAbsent(us, updUsers, todo) ==
    IF todo = {} THEN us
    ELSE LET u == CHOOSE x \in todo : TRUE
         IN RemoveAbsent(IF Lookup(updUsers, u) = NoUser THEN DeleteUser(us, u) ELSE us,
                         updUsers, todo \ {u})

\* the second loop of updateConfig; assigning into a nil map panics
RECURSIVE MergeUsers(_, _, _, _, _)
MergeUsers(us, h, updUsers, todo, rq) ==
    IF todo = {} THEN [Users |-> us, cruds |-> h, panic |-> FALSE]
    ELSE LET u == CHOOSE x \in todo : TRUE
             change == updUsers[u]
         IN IF Lookup(us, u) = NoUser
            THEN IF us = NilMap
                 THEN [Users |-> us, cruds |-> h, panic |-> TRUE]
                 ELSE MergeUsers(AddUser(us, u, change), h, updUsers, todo \ {u}, rq)
            ELSE LET u1 == [us EXCEPT ![u].Password = change.Password,
                                      ![u].Subdir = change.Subdir]
                     a  == IF u1[u].Crud # change.Crud
                           THEN AllocCrud(u1, h, u, change.Permissions, rq)
                           ELSE [Users |-> u1, cruds |-> h]
                     h2 == IF u1[u].Crud # change.Crud
                           THEN FormatCrud(a.Users, a.cruds, u).h ELSE h
                 IN MergeUsers(a.Users, h2, updUsers, todo \ {u}, rq)

\* the logging toggles flipped where the update has them set, not assigned
MergeLogFlipped(lg, upd) ==
    [lg EXCEPT !.Debug = (lg.Debug # upd.Debug), !.Create = (lg.Create # upd.Create),
               !.Read = (lg.Read # upd.Read), !.Update = (lg.Update # upd.Update),
               !.Delete = (lg.Delete # upd.Delete)]

\* the logging toggles, field by field (Log.Error is not among them)
MergeLog(lg, upd) ==
    [lg EXCEPT !.Debug = upd.Debug, !.Create = upd.Create, !.Read = upd.Read,
               !.Update = upd.Update, !.Delete = upd.Delete]

\* updateConfig(cfg, updatedCfg) run to its end, or to its panic
updateConfig(us, h, lg, f, dir, upd, rq) ==
    LET us1 == RemoveAbsent(us, upd.Users, Keys(us))
        m   == MergeUsers(us1, Collect(h, us1, rq), upd.Users, Keys(upd.Users), rq)
    IN IF m.panic
       THEN [Users |-> m.Users, cruds |-> m.cruds, Log |-> lg, fs |-> f,
             outcome |-> "panic"]
       ELSE [Users |-> m.Users, cruds |-> m.cruds, Log |-> MergeLog(lg, upd.Log),
             fs |-> createBaseAndUserDirectoriesIfNeeded(f, dir, m.Users),
             outcome |-> "done"]

\* what handleConfigUpdate hands to updateConfig: the unmarshalled file, or
\* the zero Config when the file could not be opened (the failed os.Open is
\* only logged)
UpdatedCfg(readOk, decl) == IF readOk THEN decl ELSE ZeroConfig

\* Config.handleConfigUpdate as one transition; when viper.Unmarshal fails
\* the handler returns before updateConfig.  observe: keep a record of the
\* call in probe.
handleConfigUpdate(decls, observe) ==
    /\ reload.pc = "idle"
    /\ \E readOk \in BOOLEAN, unmarshalOk \in BOOLEAN, decl \in decls :
         LET upd == UpdatedCfg(readOk, decl)
             r == IF unmarshalOk
                  THEN updateConfig(Users, cruds, Log, fs, Dir, upd, req)
                  ELSE [Users |-> Users, cruds |-> cruds, Log |-> Log, fs |-> fs,
                        outcome |-> "unmarshal error"]
         IN /\ Users' = r.Users
            /\ cruds' = r.cruds
            /\ Log' = r.Log
            /\ fs' = r.fs
            /\ probe' = IF observe
                        THEN [op |-> "reload", readOk |-> readOk, outcome |-> r.outcome,
                              updated |-> upd, pre |-> LiveView, preFs |-> fs]
                        ELSE probe
    /\ UNCHANGED <<Dir, req, reload>>

(***************************************************************************)
(* The same reload write by write: updateConfig takes no lock, so request  *)
(* steps can run between any two of its writes to the live Config.         *)
(* reload.pre is the configuration the reload started from.                *)
(***************************************************************************)
NoStore == [Users |-> NilMap, cruds |-> EmptyHeap, Log |-> ZeroLog]
IdleReload == [pc |-> "idle", updated |-> ZeroConfig, todo |-> {}, cur |-> "",
               pre |-> NoStore]

\* where updateConfig continues once the current loop has no user left
AfterRemove(rl, rest) ==
    IF rest # {} THEN [rl EXCEPT !.todo = rest]
    ELSE IF Keys(rl.updated.Users) # {}
         THEN [rl EXCEPT !.pc = "merge", !.todo = Keys(rl.updated.Users)]
         ELSE [rl EXCEPT !.pc = "dirs", !.todo = {}]
AfterMerge(rl, rest) ==
    IF rest # {} THEN [rl EXCEPT !.pc = "merge", !.todo = rest, !.cur = ""]
    ELSE [rl EXCEPT !.pc = "dirs", !.todo = {}, !.cur = ""]

\* handleConfigUpdate up to the call of updateConfig
HandleConfigUpdate(decls) ==
    /\ reload.pc = "idle"
    /\ \E readOk \in BOOLEAN, unmarshalOk \in BOOLEAN, decl \in decls :
         reload' = IF ~unmarshalOk THEN reload
                   ELSE AfterRemove([IdleReload EXCEPT
                                       !.pc = "remove",
                                       !.updated = UpdatedCfg(readOk, decl),
                                       !.pre = [Users |-> Users, cruds |-> cruds,
                                                Log |-> Log]],
                                    Keys(Users))
    /\ UNCHANGED <<Dir, Users, Log, cruds, fs, req, probe>>

\* one iteration of: for username := range cfg.Users
UpdateConfigRemove ==
    /\ reload.pc = "remove"
    /\ \E u \in reload.todo :
         /\ Users' = IF Lookup(reload.updated.Users, u) = NoUser
                     THEN DeleteUser(Users, u) ELSE Users
         /\ reload' = AfterRemove(reload, reload.todo \ {u})
    /\ cruds' = Collect(cruds, Users', req)
    /\ UNCHANGED <<Dir, Log, fs, req, probe>>

\* one iteration of: for username, change := range updatedCfg.Users, up to
\* and including its first write (the new entry, or the password); the
\* panic of a write into the nil map is recovered by handleConfigUpdate
UpdateConfigMerge ==
    /\ reload.pc = "merge"
    /\ \E u \in reload.todo :
         IF Lookup(Users, u) = NoUser
         THEN IF Users = NilMap
              THEN /\ reload' = IdleReload
                   /\ UNCHANGED Users
              ELSE /\ Users' = AddUser(Users, u, reload.updated.Users[u])
                   /\ reload' = AfterMerge(reload, reload.todo \ {u})
         ELSE /\ Users' = [Users EXCEPT ![u].Password = reload.updated.Users[u].Password]
              /\ reload' = [reload EXCEPT !.pc = "subdir", !.cur = u]
    /\ UNCHANGED <<Dir, Log, cruds, fs, req, probe>>

\* cfg.Users[username].Subdir = userInformationChange.Subdir
UpdateConfigSubdir ==
    /\ reload.pc = "subdir"
    /\ LET u == reload.cur
       IN /\ Users' = [Users EXCEPT ![u].Subdir = reload.updated.Users[u].Subdir]
          /\ reload' = IF Users[u].Crud # reload.updated.Users[u].Crud
                       THEN [reload EXCEPT !.pc = "crud"]
                       ELSE AfterMerge(reload, reload.todo \ {u})
    /\ UNCHANGED <<Dir, Log, cruds, fs, req, probe>>

\* cfg.Users[username].Crud = &CrudType{Crud: userInformationChange.Permissions}
UpdateConfigCrud ==
    /\ reload.pc = "crud"
    /\ LET a == AllocCrud(Users, cruds, reload.cur,
                          reload.updated.Users[reload.cur].Permissions, req)
       IN /\ Users' = a.Users
          /\ cruds' = a.cruds
    /\ reload' = [reload EXCEPT !.pc = "format"]
    /\ UNCHANGED <<Dir, Log, fs, req, probe>>

\* err := FormatCrud(context.Background(), username, cfg)
UpdateConfigFormat ==
    /\ reload.pc = "format"
    /\ cruds' = FormatCrud(Users, cruds, reload.cur).h
    /\ reload' = AfterMerge(reload, reload.todo \ {reload.cur})
    /\ UNCHANGED <<Dir, Users, Log, fs, req, probe>>

\* cfg.createBaseAndUserDirectoriesIfNeeded()
UpdateConfigDirs ==
    /\ reload.pc = "dirs"
    /\ fs' = createBaseAndUserDirectoriesIfNeeded(fs, Dir, Users)
    /\ reload' = [reload EXCEPT !.pc = "log"]
    /\ UNCHANGED <<Dir, Users, Log, cruds, req, probe>>

\* the logging toggles; updateConfig returns
UpdateConfigLog ==
    /\ reload.pc = "log"
    /\ Log' = MergeLog(Log, reload.updated.Log)
    /\ reload' = IdleReload
    /\ UNCHANGED <<Dir, Users, cruds, fs, req, probe>>

(***************************************************************************)
(* One request: handle (src/app/security.go), then the protocol engine     *)
(* calling the Dir capabilities (src/app/fs.go).  wrote is the sequence of *)
(* status codes handed to the ResponseWriter (the first one is what the    *)
(* client receives; a body written first implies 200).  A panic is caught  *)
(* by wrapRecovery (src/cmd/david/main.go) and ends the request with       *)
(* whatever had been written.                                              *)
(***************************************************************************)
NoOp == [op |-> "none"]
IdleReq == [pc |-> "idle", method |-> "", path |-> <<>>, hasAuth |-> FALSE,
            username |-> "", password |-> "", authInfo |-> NoAuthInfo,
            authErr |-> ErrNil, wrote |-> <<>>, challenge |-> FALSE, allow |-> FALSE,
            delegated |-> FALSE, panic |-> FALSE, last |-> NoOp]

Methods == {"GET", "PUT", "POST", "DELETE", "HEAD", "OPTIONS", "PROPFIND", "MKOL",
            "MKCOL", "MOVE", "LOCK", "UNLOCK", "PROPPATCH", "COPY", "BREW"}
UserInputs == {"", "foo", "bar"}
PasswordInputs == {"", "password", "wrong"}
ReqPaths == {<<Slash>>, <<Slash, "x">>}

\* a.Config.Users[authInfo.Username].Crud, NoCrud when the dereference panics
LiveCrud(us, h, name) ==
    LET user == Lookup(us, name)
    IN IF user = NoUser \/ user.Crud = NilPtr THEN NoCrud ELSE h[user.Crud]

\* SayUnauthorized
SayUnauthorized(rq) ==
    [rq EXCEPT !.challenge = TRUE, !.wrote = Append(rq.wrote, 401),
               !.pc = "done"]

Panicked(rq) == [rq EXCEPT !.panic = TRUE, !.pc = "done"]

\* what arrives with a request: Basic credentials or none
Creds == {[hasAuth |-> FALSE, username |-> "", password |-> ""]}
         \cup {[hasAuth |-> TRUE, username |-> u, password |-> pw] :
                          u \in UserInputs, pw \in PasswordInputs}

\* handle, lines 91-133: preflight, bypass, httpAuth, authenticate.  The
\* method is read at line 94 and the credentials by httpAuth; the path of a
\* request that gets past this point is read first by the gate (or, in
\* bypass mode, by the engine) and is drawn there.
HandleAuth ==
    /\ req.pc = "idle"
    /\ \E method \in Methods, preflight \in BOOLEAN :
         IF method = "OPTIONS" /\ preflight
         THEN req' = [IdleReq EXCEPT !.method = "OPTIONS", !.wrote = <<204>>,
                                     !.pc = "done"]
         ELSE IF ~AuthenticationNeeded(Users)
         THEN \E path \in ReqPaths :
                req' = [IdleReq EXCEPT !.method = method, !.path = path,
                                       !.delegated = TRUE, !.pc = "engine"]
         ELSE \E cred \in Creds :
                LET rq0 == [IdleReq EXCEPT !.method = method,
                                           !.hasAuth = cred.hasAuth,
                                           !.username = cred.username,
                                           !.password = cred.password]
                    res == authenticate(Users, cred.username, cred.password)
                IN req' = IF ~cred.hasAuth THEN SayUnauthorized(rq0)
                          ELSE IF res.panic THEN Panicked(rq0)
                          ELSE [rq0 EXCEPT !.authInfo = res.info, !.authErr = res.err,
                                           !.pc = "authed"]
    /\ cruds' = Collect(cruds, Users, req')
    /\ UNCHANGED <<Dir, Users, Log, fs, reload, probe>>

\* handle, lines 134-141: if !authInfo.Authenticated || !authInfo.CrudType.Read
\* (the password is not used past this point)
HandleAuthorize ==
    /\ req.pc = "authed"
    /\ req' = IF ~req.authInfo.Authenticated THEN SayUnauthorized(req)
              ELSE IF req.authInfo.CrudType = NilPtr THEN Panicked(req)
              ELSE IF ~Deref(cruds, req.authInfo.CrudType).Read THEN SayUnauthorized(req)
              ELSE [req EXCEPT !.pc = "gate", !.password = ""]
    /\ UNCHANGED <<Dir, Users, Log, cruds, fs, reload, probe>>

(***************************************************************************)
(* handleHeadersForAuthorization: the result is a panic, or the status     *)
(* codes written, whether an error is returned and the ok flag.            *)
(***************************************************************************)
GateResult(codes, isErr, ok) ==
    [panic |-> FALSE, codes |-> codes, allow |-> FALSE, err |-> isErr, ok |-> ok]
GatePanic == [panic |-> TRUE, codes |-> <<>>, allow |-> FALSE, err |-> FALSE, ok |-> FALSE]

\* a case of the form: if !Users[name].Crud.<flag> { WriteHeader(code); return nil, !ok }
GateOnFlag(crud, flag, code) ==
    IF crud = NoCrud THEN GatePanic
    ELSE IF ~crud[flag] THEN GateResult(<<code>>, FALSE, FALSE)
    ELSE GateResult(<<>>, FALSE, TRUE)

handleHeadersForAuthorization(method, path, authInfo, us, h, f, dir) ==
    LET crud == LiveCrud(us, h, authInfo.Username)
    IN CASE method = "GET" ->
              \* handleMethodNotAllowed writes the body before the header
              GateResult(<<200, 405>>, FALSE, FALSE)
         [] method = "PUT" -> GateOnFlag(crud, "Create", 403)
         [] method \in {"POST", "HEAD"} -> GateResult(<<501>>, TRUE, FALSE)
         [] method = "DELETE" -> GateOnFlag(crud, "Delete", 403)
         [] method = "OPTIONS" ->
              [GateResult(<<200>>, FALSE, FALSE) EXCEPT !.allow = TRUE]
         [] method = "PROPFIND" ->
              IF crud = NoCrud THEN GatePanic
              ELSE IF ~crud.Read THEN GateResult(<<401>>, FALSE, FALSE)
              ELSE IF ~crud.Create \/ ~crud.Update
                   THEN IF ~Exists(f, Resolve(authInfo, path, dir, us))
                        THEN GateResult(<<>>, FALSE, FALSE)
                        ELSE GateResult(<<>>, FALSE, TRUE)
                   ELSE GateResult(<<>>, FALSE, TRUE)
         [] method = "MKOL" -> GateOnFlag(crud, "Create", 401)
         [] method = "MOVE" -> GateOnFlag(crud, "Update", 401)
         [] method \in {"LOCK", "UNLOCK"} -> GateOnFlag(crud, "Create", 401)
         [] method = "PROPPATCH" -> GateResult(<<>>, FALSE, TRUE)
         [] OTHER -> GateResult(<<>>, TRUE, TRUE)

\* handle, lines 143-156: the gate, then the three-way test on (err, ok)
HandleGate ==
    /\ req.pc = "gate"
    /\ \E path \in ReqPaths :
         LET g == handleHeadersForAuthorization(req.method, path, req.authInfo,
                                                Users, cruds, fs, Dir)
             rq1 == [req EXCEPT !.path = path,
                                !.wrote = req.wrote \o g.codes, !.allow = g.allow]
         IN req' = IF g.panic THEN Panicked(rq1)
                   ELSE IF ~g.err /\ ~g.ok THEN [rq1 EXCEPT !.pc = "done"]
                   ELSE [rq1 EXCEPT !.delegated = TRUE, !.pc = "engine"]
    /\ UNCHANGED <<Dir, Users, Log, cruds, fs, reload, probe>>

(***************************************************************************)
(* Dir capabilities (src/app/fs.go)                                        *)
(***************************************************************************)
\* Dir.resolveUser
resolveUser(authInfo) ==
    IF authInfo # NoAuthInfo /\ authInfo.Authenticated THEN authInfo.Username ELSE ""

\* Dir.authorizationFromContext
authorizationFromContext(authInfo, us, h) ==
    IF resolveUser(authInfo) = ""
    THEN [h |-> h, err |-> "no user identified"]
    ELSE FormatCrud(us, h, resolveUser(authInfo))

\* outcome of one capability call: what it returned and the disk and heap
\* it left behind
OpResult(op, name, phys, err, f, h) ==
    [op |-> op, name |-> name, phys |-> phys, newName |-> <<>>, newPhys |-> <<>>,
     err |-> err, got |-> FALSE, panic |-> FALSE, fs |-> f, cruds |-> h]
OpPanic(op, name, phys, f, h) ==
    [OpResult(op, name, phys, ErrNil, f, h) EXCEPT !.panic = TRUE]

\* RemoveAll without the test of the delete flag
RemoveAllUngated(authInfo, name, dir, us, h, f) ==
    LET phys == Resolve(authInfo, name, dir, us)
        auth == authorizationFromContext(authInfo, us, h)
    IN IF phys = <<>> THEN OpResult("RemoveAll", name, phys, "ErrNotExist", f, h)
       ELSE IF phys = Clean(dir)
       THEN OpResult("RemoveAll", name, phys, "removing the virtual root directory is prohibited", f, h)
       ELSE IF auth.err # ErrNil THEN OpResult("RemoveAll", name, phys, auth.err, f, auth.h)
       ELSE OpResult("RemoveAll", name, phys, ErrNil, OsRemoveAll(f, phys), auth.h)

\* RemoveAll testing the permission set the caller authenticated with, not
\* the one of the live record
RemoveAllStale(authInfo, name, dir, us, h, f) ==
    LET phys == Resolve(authInfo, name, dir, us)
    IN IF phys = <<>> THEN OpResult("RemoveAll", name, phys, "ErrNotExist", f, h)
       ELSE IF phys = Clean(dir)
       THEN OpResult("RemoveAll", name, phys, "removing the virtual root directory is prohibited", f, h)
       ELSE IF resolveUser(authInfo) = ""
       THEN OpResult("RemoveAll", name, phys, "no user identified", f, h)
       ELSE IF authInfo.CrudType = NilPtr THEN OpPanic("RemoveAll", name, phys, f, h)
       ELSE IF ~Deref(h, authInfo.CrudType).Delete
       THEN OpResult("RemoveAll", name, phys, "unauthorized to delete file or directory", f, h)
       ELSE OpResult("RemoveAll", name, phys, ErrNil, OsRemoveAll(f, phys), h)

\* Dir.RemoveAll
RemoveAll(authInfo, name, dir, us, h, f) ==
    LET phys == Resolve(authInfo, name, dir, us)
        auth == authorizationFromContext(authInfo, us, h)
        crud == LiveCrud(us, auth.h, resolveUser(authInfo))
    IN IF phys = <<>> THEN OpResult("RemoveAll", name, phys, "ErrNotExist", f, h)
       ELSE IF phys = Clean(dir)
       THEN OpResult("RemoveAll", name, phys, "removing the virtual root directory is prohibited", f, h)
       ELSE IF auth.err # ErrNil THEN OpResult("RemoveAll", name, phys, auth.err, f, auth.h)
       ELSE IF crud = NoCrud THEN OpPanic("RemoveAll", name, phys, f, auth.h)
       ELSE IF ~crud.Delete
       THEN OpResult("RemoveAll", name, phys, "unauthorized to delete file or directory", f, auth.h)
       ELSE OpResult("RemoveAll", name, phys, ErrNil, OsRemoveAll(f, phys), auth.h)

\* Dir.Rename
Rename(authInfo, oldName, newName, dir, us, h, f) ==
    LET old == Resolve(authInfo, oldName, dir, us)
        new == Resolve(authInfo, newName, dir, us)
        auth == authorizationFromContext(authInfo, us, h)
        crud == LiveCrud(us, auth.h, resolveUser(authInfo))
        res(err, f2, h2) == [OpResult("Rename", oldName, old, err, f2, h2)
                                EXCEPT !.newName = newName, !.newPhys = new]
    IN IF old = <<>> \/ new = <<>> THEN res("ErrNotExist", f, h)
       ELSE IF Clean(dir) = old \/ Clean(dir) = new THEN res("ErrInvalid", f, h)
       ELSE IF auth.err # ErrNil THEN res(auth.err, f, auth.h)
       ELSE IF crud = NoCrud THEN [res(ErrNil, f, auth.h) EXCEPT !.panic = TRUE]
       ELSE IF ~crud.Update
       THEN res("unauthorized to rename file or directory", f, auth.h)
       ELSE IF ~OsRenameOk(f, old, new) THEN res("os.Rename failed", f, auth.h)
       ELSE res(ErrNil, OsRename(f, old, new), auth.h)

\* Mkdir without the test of the create flag
MkdirUngated(authInfo, name, dir, us, h, f, lg) ==
    LET phys == Resolve(authInfo, name, dir, us)
        auth == authorizationFromContext(authInfo, us, h)
    IN IF phys = <<>> THEN OpResult("Mkdir", name, phys, "ErrNotExist", f, h)
       ELSE IF auth.err # ErrNil THEN OpResult("Mkdir", name, phys, auth.err, f, auth.h)
       ELSE IF ~OsMkdirOk(f, phys)
       THEN OpResult("Mkdir", name, phys, "os.Mkdir failed", f, auth.h)
       ELSE OpResult("Mkdir", name, phys, ErrNil, OsMkdir(f, phys), auth.h)

\* Dir.Mkdir
Mkdir(authInfo, name, dir, us, h, f, lg) ==
    LET phys == Resolve(authInfo, name, dir, us)
        auth == authorizationFromContext(authInfo, us, h)
        crud == LiveCrud(us, auth.h, resolveUser(authInfo))
    IN IF phys = <<>> THEN OpResult("Mkdir", name, phys, "ErrNotExist", f, h)
       ELSE IF auth.err # ErrNil THEN OpResult("Mkdir", name, phys, auth.err, f, auth.h)
       ELSE IF crud = NoCrud THEN OpPanic("Mkdir", name, phys, f, auth.h)
       ELSE IF ~crud.Create
       THEN OpResult("Mkdir", name, phys,
                     IF lg.Create THEN "unauthorized to create directory" ELSE ErrNil,
                     f, auth.h)
       ELSE IF ~OsMkdirOk(f, phys)
       THEN OpResult("Mkdir", name, phys, "os.Mkdir failed", f, auth.h)
       ELSE OpResult("Mkdir", name, phys, ErrNil, OsMkdir(f, phys), auth.h)

\* Dir.OpenFile; got: a file is returned.  flag&os.O_RDONLY == 0 holds for
\* every flag (O_RDONLY is 0), so read is required whatever the access mode.
OpenFile(authInfo, name, flag, dir, us, h, f, lg) ==
    LET phys == Resolve(authInfo, name, dir, us)
        auth == authorizationFromContext(authInfo, us, h)
        crud == LiveCrud(us, auth.h, resolveUser(authInfo))
    IN IF phys = <<>> THEN OpResult("OpenFile", name, phys, "ErrNotExist", f, h)
       ELSE IF auth.err # ErrNil THEN OpResult("OpenFile", name, phys, auth.err, f, auth.h)
       ELSE IF ~OsStatOk(f, phys) /\ ~lg.Create
       THEN OpResult("OpenFile", name, phys,
                     "the file does not exist and user has no write permission to create it",
                     f, auth.h)
       ELSE IF crud = NoCrud THEN OpPanic("OpenFile", name, phys, f, auth.h)
       ELSE IF ~crud.Read
       THEN OpResult("OpenFile", name, phys, "unauthorized to read file", f, auth.h)
       ELSE IF WantsWrite(flag) /\ ~crud.Create
       THEN OpResult("OpenFile", name, phys, ErrNil, f, auth.h)
       ELSE IF ~OsOpenFileOk(f, phys, flag)
       THEN OpResult("OpenFile", name, phys, "os.OpenFile failed", f, auth.h)
       ELSE [OpResult("OpenFile", name, phys, ErrNil, OsOpenFile(f, phys, flag), auth.h)
               EXCEPT !.got = TRUE]

\* Stat without the test of the resolved name
StatUnvalidated(authInfo, name, dir, us, h, f, lg) ==
    LET phys == Resolve(authInfo, name, dir, us)
        crud == LiveCrud(us, h, resolveUser(authInfo))
    IN IF crud = NoCrud THEN OpPanic("Stat", name, phys, f, h)
       ELSE IF ~crud.Read
       THEN OpResult("Stat", name, phys, "unauthorized to read file", f, h)
       ELSE IF OsStatOk(f, phys)
       THEN [OpResult("Stat", name, phys, ErrNil, f, h) EXCEPT !.got = TRUE]
       ELSE IF crud.Read /\ ~crud.Create /\ lg.Create
       THEN OpResult("Stat", name, phys, ErrNil, f, h)
       ELSE OpResult("Stat", name, phys, "ErrNotExist", f, h)

\* Dir.Stat; got: a FileInfo is returned
Stat(authInfo, name, dir, us, h, f, lg) ==
    LET phys == Resolve(authInfo, name, dir, us)
        crud == LiveCrud(us, h, resolveUser(authInfo))
    IN IF phys = <<>> THEN OpResult("Stat", name, phys, "ErrNotExist", f, h)
       ELSE IF crud = NoCrud THEN OpPanic("Stat", name, phys, f, h)
       ELSE IF ~crud.Read
       THEN OpResult("Stat", name, phys, "unauthorized to read file", f, h)
       ELSE IF OsStatOk(f, phys)
       THEN [OpResult("Stat", name, phys, ErrNil, f, h) EXCEPT !.got = TRUE]
       ELSE IF crud.Read /\ ~crud.Create /\ lg.Create
       THEN OpResult("Stat", name, phys, ErrNil, f, h)
       ELSE OpResult("Stat", name, phys, "ErrNotExist", f, h)

(***************************************************************************)
(* The protocol engine (webdav.Handler wired to Dir in main.go) calls the  *)
(* capabilities its method needs, any number of times, with the request's  *)
(* context: on the request path, and for Rename on the path of the         *)
(* Destination header as well.                                             *)
(***************************************************************************)
EngineCalls(method) ==
    CASE method \in {"GET", "HEAD", "POST"} -> {"OpenFile", "Stat"}
      [] method = "OPTIONS" -> {"Stat"}
      [] method = "PUT" -> {"OpenFile", "Stat"}
      [] method = "DELETE" -> {"Stat", "RemoveAll"}
      [] method = "MKCOL" -> {"Mkdir"}
      [] method = "COPY" -> {"Stat", "OpenFile", "Mkdir", "RemoveAll"}
      [] method = "MOVE" -> {"Stat", "Rename", "RemoveAll"}
      [] method = "LOCK" -> {"Stat", "OpenFile"}
      [] method = "PROPFIND" -> {"Stat", "OpenFile"}
      [] method = "PROPPATCH" -> {"Stat"}
      [] OTHER -> {}

\* the record of the last capability call kept with the request: its
\* arguments, the caller's jail root at that moment, what it returned and
\* whether the disk changed
CallRecord(r, f) ==
    [op |-> r.op, name |-> r.name, phys |-> r.phys, newName |-> r.newName,
     newPhys |-> r.newPhys, err |-> r.err, panic |-> r.panic,
     jail |-> JailRoot(req.authInfo, Dir, Users), changed |-> r.fs # f,
     gone |-> f \ r.fs]

AfterCall(r) ==
    /\ fs' = r.fs
    /\ req' = [req EXCEPT !.last = CallRecord(r, fs),
                          !.panic = r.panic,
                          !.pc = IF r.panic THEN "done" ELSE "engine"]
    /\ cruds' = r.cruds

EngineRemoveAll ==
    /\ req.pc = "engine"
    /\ "RemoveAll" \in EngineCalls(req.method)
    /\ AfterCall(RemoveAll(req.authInfo, req.path, Dir, Users, cruds, fs))
    /\ UNCHANGED <<Dir, Users, Log, reload, probe>>

EngineRename ==
    /\ req.pc = "engine"
    /\ "Rename" \in EngineCalls(req.method)
    /\ \E destination \in ReqPaths :
         AfterCall(Rename(req.authInfo, req.path, destination, Dir, Users, cruds, fs))
    /\ UNCHANGED <<Dir, Users, Log, reload, probe>>

\* the engine has answered and handle returns
EngineFinish ==
    /\ req.pc = "engine"
    /\ req' = IdleReq
    /\ cruds' = Collect(cruds, Users, req')
    /\ UNCHANGED <<Dir, Users, Log, fs, reload, probe>>

\* a request answered by handle itself (or ended by a panic) is over
HandlerReturn ==
    /\ req.pc = "done"
    /\ req' = IdleReq
    /\ cruds' = Collect(cruds, Users, req')
    /\ UNCHANGED <<Dir, Users, Log, fs, reload, probe>>

(***************************************************************************)
(* Declared configurations                                                 *)
(***************************************************************************)
BaseDir == <<Slash, "t">>
JailS == <<<<Slash, "s">>>>
PermOf(S) == SelectSeq(<<"c", "r", "u", "d">>, LAMBDA x : x \in S)
AllPerms == {PermOf(S) : S \in SUBSET {"c", "r", "u", "d"}}
TooLong == <<"c", "r", "u", "d", "x">>

OneUser(name, rec) == [u \in {name} |-> rec]
TwoUsers(frec, brec) == [u \in {"foo", "bar"} |-> IF u = "foo" THEN frec ELSE brec]
PlainBar == DeclUser("password", NoSubdir, PermOf({"r"}))

\* startup of the serving model: one user under every permission string,
\* jailed or not, or another user only, or no users at all
ServeDecls ==
    {[Users |-> NilMap, Log |-> LogAll(FALSE)]}
    \cup {[Users |-> us, Log |-> LogAll(FALSE)] :
            us \in {OneUser("foo", DeclUser("password", sub, perm)) :
                     sub \in {NoSubdir, JailS}, perm \in AllPerms \cup {TooLong}}
                   \cup {OneUser("bar", PlainBar)}}
\* what the file may be changed to while serving
ServeReloadDecls ==
    {[Users |-> OneUser("bar", PlainBar), Log |-> LogAll(FALSE)],
     [Users |-> TwoUsers(DeclUser("password", NoSubdir, PermOf({"c", "r", "u", "d"})),
                         PlainBar), Log |-> LogAll(FALSE)],
     [Users |-> OneUser("foo", DeclUser("password", JailS, PermOf({"r"}))),
      Log |-> LogAll(TRUE)]}

(***************************************************************************)
(* The server after startup                                                *)
(***************************************************************************)
InitProbe == [op |-> "none"]

Started(decls) ==
    /\ Dir = BaseDir
    /\ \E decl \in decls :
         LET parsed == ParseConfig(decl)
         IN /\ Users = parsed.Users
            /\ cruds = parsed.cruds
            /\ Log = decl.Log
            /\ fs = createBaseAndUserDirectoriesIfNeeded(DiskBefore, Dir, parsed.Users)
    /\ req = IdleReq
    /\ reload = IdleReload
    /\ probe = InitProbe

(***************************************************************************)
(* SpecServe: requests against the store, reloads as whole transitions     *)
(***************************************************************************)

NextServe ==
    \/ (req.pc # "done" /\ handleConfigUpdate(ServeReloadDecls, FALSE))
    \/ HandleAuth
    \/ HandleAuthorize
    \/ HandleGate
    \/ EngineRemoveAll
    \/ EngineRename
    \/ EngineFinish
    \/ HandlerReturn

SpecServe == Started(ServeDecls) /\ [][NextServe]_vars

\* C2: RemoveAll on a name that resolves to the caller's jail root is
\* refused and deletes nothing, and Rename is refused when its old or its
\* new name resolves to the caller's jail root, whatever the flags.
C2_JailRootKept ==
    /\ (req.last.op = "RemoveAll" /\ req.last.phys = req.last.jail)
         => (req.last.err # ErrNil /\ ~req.last.changed)
    /\ (req.last.op = "Rename"
        /\ (req.last.phys = req.last.jail \/ req.last.newPhys = req.last.jail))
         => (req.last.err # ErrNil /\ ~req.last.changed)

\* C4: a call of authenticate that fails returns a non-nil identity with
\* Authenticated = false and the supplied username, together with a non-nil
\* error, and does not crash (also when the username matches no record).
C4_FailureReturnsIdentity ==
    (req.hasAuth /\ req.pc # "idle")
        => /\ req.authInfo # NoAuthInfo
           /\ ~req.authInfo.Authenticated
                => (req.authErr # ErrNil /\ req.authInfo.Username = req.username)

\* C5: with users configured and a non-empty username and password,
\* authenticate returns Authenticated = true and a nil error exactly when a
\* record of that name exists and its hash verifies against the password;
\* the identity then carries that record's permission set; a wrong password
\* returns Authenticated = false and a non-nil error.
C5_AuthenticateIffVerifies ==
    [][(/\ req.pc = "idle"
        /\ AuthenticationNeeded(Users)
        /\ req'.hasAuth /\ req'.username # "" /\ req'.password # "")
       => LET user == Lookup(Users, req'.username)
              verified == user # NoUser /\ user.Password = GenHash(req'.password)
              succeeded == /\ req'.pc = "authed"
                           /\ req'.authInfo.Authenticated
                           /\ req'.authErr = ErrNil
          IN /\ succeeded <=> verified
             /\ succeeded => /\ req'.authInfo.Username = req'.username
                             /\ req'.authInfo.CrudType = user.Crud
             /\ (user # NoUser /\ ~verified)
                  => /\ req'.pc = "authed"
                     /\ ~req'.authInfo.Authenticated
                     /\ req'.authErr # ErrNil]_vars

\* foo has authenticated with the right password and carries foo's set
C5_Witness ==
    /\ req.pc = "authed"
    /\ req.username = "foo" /\ req.password = "password"
    /\ req.authInfo.Authenticated
    /\ req.authErr = ErrNil
    /\ Lookup(Users, "foo") # NoUser
    /\ req.authInfo.CrudType = Users["foo"].Crud
    /\ req.authInfo.CrudType \in CrudIds

\* a CORS preflight is answered before authentication is looked at
IsPreflight(rq) == rq.method = "OPTIONS" /\ rq.wrote = <<204>> /\ ~rq.hasAuth
AuthFailed(rq) == rq.authInfo = NoAuthInfo \/ ~rq.authInfo.Authenticated

\* C6: with users configured, handle delegates only after authentication
\* succeeded; a request without credentials, of an unknown user or with a
\* wrong password is answered 401 with the challenge, and no filesystem
\* capability runs for it.
C6_NoDelegationUnlessAuthenticated ==
    \* delegated, and not by the bypass of a server without users
    /\ (req.delegated /\ ~(req.authInfo = NoAuthInfo /\ ~req.hasAuth)) => ~AuthFailed(req)
    /\ (req.pc = "done" /\ ~IsPreflight(req) /\ AuthFailed(req))
         => /\ req.wrote = <<401>>
            /\ req.challenge
            /\ ~req.delegated
            /\ req.last = NoOp

\* the capability each gated method is mapped to
GateFlag(method) ==
    CASE method = "PUT" -> "Create"
      [] method = "DELETE" -> "Delete"
      [] method = "MOVE" -> "Update"
      [] method = "PROPFIND" -> "Read"

C10_UnmappedNotImplemented ==
    [][(/\ req.pc = "gate"
        /\ req' # req
        /\ req.method \notin {"PUT", "DELETE", "MOVE", "PROPFIND", "LOCK", "UNLOCK",
                               "PROPPATCH", "OPTIONS", "GET", "MKCOL", "MKOL"})
       => (req'.wrote = <<501>> /\ ~req'.delegated)]_vars

\* C11: a PROPFIND of an authenticated caller who lacks create, on a path
\* that resolves to nothing existing, is answered 401 and is not delegated.
C11_PropfindMissingDenied ==
    [][(req.pc = "gate" /\ req'.method = "PROPFIND")
       => LET crud == LiveCrud(Users, cruds, req.authInfo.Username)
          IN (/\ crud # NoCrud
              /\ ~crud.Create
              /\ ~Exists(fs, Resolve(req.authInfo, req'.path, Dir, Users)))
                => (req'.wrote = <<401>> /\ ~req'.delegated)]_vars

\* C31: an OPTIONS request is answered by handle itself, with 200 and the
\* Allow and DAV headers or with 204 for a preflight, whatever capabilities
\* the caller holds, and it is never delegated to the engine.  (A request
\* that fails authentication is answered 401 before its method matters.)
C31_OptionsAnsweredDirectly ==
    (/\ req.method = "OPTIONS"
     /\ req.pc \in {"done", "engine"}
     /\ ~(AuthFailed(req) /\ ~req.delegated /\ ~IsPreflight(req)))
        => /\ ~req.delegated
           /\ \/ req.wrote = <<204>>
              \/ (req.wrote = <<200>> /\ req.allow)

\* C32: a GET of an authenticated caller that reaches the gate is answered
\* with status 405 (the first status written is the one that goes out) and
\* is not delegated.
C32_GetNotAllowed ==
    [][(req.pc = "gate" /\ req' # req /\ req.method = "GET")
       => /\ req'.wrote # <<>>
          /\ Head(req'.wrote) = 405
          /\ ~req'.delegated]_vars

\* C34: an authenticated caller who holds the capability mapped to the
\* method (create for PUT, delete for DELETE, update for MOVE, read for
\* PROPFIND on an existing resource) passes handle's own test and the gate
\* and is delegated, whatever the other three flags are.
C34_MethodGateSufficiency ==
    [][(/\ req.pc \in {"authed", "gate"}
        /\ req' # req
        /\ req.method \in {"PUT", "DELETE", "MOVE", "PROPFIND"}
        /\ ~AuthFailed(req)
        /\ LET crud == LiveCrud(Users, cruds, req.authInfo.Username)
           IN crud # NoCrud /\ crud[GateFlag(req.method)]
        /\ (req.pc = "gate" /\ req.method = "PROPFIND")
              => Exists(fs, Resolve(req.authInfo, req'.path, Dir, Users)))
       => IF req.pc = "authed" THEN req'.pc = "gate"
          ELSE req'.delegated /\ req'.pc = "engine"]_vars

\* C38: when the gate returns not-authorized or has written a status, handle
\* does not delegate the request: no request gets both the gate's response
\* and the engine's.
C38_GateRejectionFinal ==
    [][(req.pc = "gate" /\ req' # req)
       => LET g == handleHeadersForAuthorization(req.method, req'.path, req.authInfo,
                                                 Users, cruds, fs, Dir)
          IN (~g.panic /\ (~g.ok \/ g.codes # <<>>)) => ~req'.delegated]_vars

\* C37: when the user of an authenticated request in flight has been
\* removed from the store by a reload, no later step of the request (the
\* gate, a capability call) crashes.
C37_RemovedUserNoCrash ==
    [][(/\ req.pc \in {"gate", "engine"}
        /\ req' # req
        /\ ~AuthFailed(req)
        /\ Lookup(Users, req.authInfo.Username) = NoUser)
       => ~req'.panic]_vars

TmpDir == <<Slash, "t", "m", "p">>
ResolveDecls ==
    {[Users |-> OneUser("foo", DeclUser("password", sub, PermOf({"c", "r", "u", "d"}))),
      Log |-> LogAll(FALSE)] :
        sub \in {NoSubdir, <<<<>>>>, <<<<"s">>>>, JailS, <<<<Dot, Dot>>>>,
                 <<<<Dot, Dot, Slash, "s">>>>}}

\* the name of the example: ../../../x
EscapeName == <<Dot, Dot, Slash, Dot, Dot, Slash, Dot, Dot, Slash, "x">>
\* a name of TestDirResolve: a/b/c/../../../../d
UpAndDown == <<"a", Slash, "b", Slash, "c", Slash, Dot, Dot, Slash, Dot, Dot, Slash,
               Dot, Dot, Slash, Dot, Dot, Slash, "d">>
ResolveNames ==
    SeqsUpTo({Slash, Dot, "a"}, MaxNameLen)
    \cup {EscapeName, <<Dot, Dot, Slash, Dot, Dot>>, <<NUL>>, <<"a", NUL, Slash>>,
          UpAndDown}

Identity(name, authenticated) ==
    [Username |-> name, Authenticated |-> authenticated, CrudType |-> TestCrudPtr]

InitResolve ==
    /\ Dir \in {<<>>, <<"t">>, BaseDir, TmpDir}
    /\ \E decl \in ResolveDecls :
         LET parsed == ParseConfig(decl)
         IN /\ Users = parsed.Users
            /\ cruds = parsed.cruds
            /\ Log = decl.Log
            /\ fs = createBaseAndUserDirectoriesIfNeeded(DiskBefore, Dir, parsed.Users)
    /\ req = IdleReq
    /\ reload = IdleReload
    /\ probe = InitProbe

\* a capability resolves a name for a caller
ResolveCall ==
    /\ probe = InitProbe
    /\ \E authInfo \in {NoAuthInfo, Identity("foo", FALSE), Identity("foo", TRUE),
                        Identity("bar", TRUE)},
            name \in ResolveNames :
         probe' = [op |-> "Resolve", authInfo |-> authInfo, name |-> name,
                   result |-> Resolve(authInfo, name, Dir, Users),
                   jail |-> JailRoot(authInfo, Dir, Users)]
    /\ UNCHANGED <<Dir, Users, Log, cruds, fs, req, reload>>

\* the recorded call returns to its caller
Return ==
    /\ probe # InitProbe
    /\ probe' = InitProbe
    /\ UNCHANGED <<Dir, Users, Log, cruds, fs, req, reload>>

NextResolve ==
    \/ ResolveCall
    \/ Return
    \/ (probe = InitProbe /\ handleConfigUpdate(ResolveDecls, FALSE))

SpecResolve == InitResolve /\ [][NextResolve]_vars

\* C1: for every base directory, every identity and every name without a
\* NUL byte, the path Resolve returns is the caller's jail root (baseDir, or
\* baseDir/subdir for a jailed user) or lies beneath it.
C1_ResolveConfined ==
    (probe.op = "Resolve" /\ ~Contains(probe.name, NUL))
        => Under(probe.result, probe.jail)

\* base /tmp, no jail, ../../../x has resolved to /tmp/x
C1_Witness ==
    /\ probe.op = "Resolve"
    /\ Dir = TmpDir
    /\ probe.authInfo = Identity("foo", TRUE)
    /\ Lookup(Users, "foo") # NoUser
    /\ Users["foo"].Subdir = NoSubdir
    /\ probe.name = EscapeName
    /\ probe.result = <<Slash, "t", "m", "p", Slash, "x">>

\* C3: in every configuration reached by load and reloads, every user's
\* jail root and every path Resolve returns lie inside baseDir.
C3_SubdirInsideBase ==
    /\ \A u \in Keys(Users) :
         Under(JailRoot(Identity(u, TRUE), Dir, Users), Clean(BaseOf(Dir)))
    /\ (probe.op = "Resolve" /\ ~Contains(probe.name, NUL))
         => Under(probe.result, Clean(BaseOf(Dir)))

\* C22: Resolve returns the empty string for a name with a NUL byte and
\* otherwise the jail root joined with the cleaned form of "/" + name: the
\* names "", ".", "/", ".." and "../.." give the jail root, the name
\* a/b/c/../../../../d gives jailRoot/d, and an empty base directory counts
\* as ".".
C22_ResolveReference ==
    probe.op = "Resolve"
        => IF Contains(probe.name, NUL) THEN probe.result = <<>>
           ELSE /\ probe.result = Join(<<probe.jail, Clean(<<Slash>> \o probe.name)>>)
                /\ probe.name \in {<<>>, <<Dot>>, <<Slash>>, <<Dot, Dot>>,
                                   <<Dot, Dot, Slash, Dot, Dot>>}
                     => probe.result = probe.jail
                /\ probe.name = UpAndDown
                     => probe.result = Join(<<probe.jail, <<"d">>>>)
                /\ (Dir = <<>> /\ probe.authInfo = NoAuthInfo)
                     => /\ probe.jail = <<Dot>>
                        /\ probe.name = <<"a">> => probe.result = <<"a">>

\* the jailed user of base /t has resolved a/b/c/../../../../d to /t/s/d
C22_Witness ==
    /\ probe.op = "Resolve"
    /\ Dir = BaseDir
    /\ probe.authInfo = Identity("foo", TRUE)
    /\ Lookup(Users, "foo") # NoUser
    /\ Users["foo"].Subdir = JailS
    /\ probe.name = UpAndDown
    /\ probe.result = <<Slash, "t", Slash, "s", Slash, "d">>

\* C33: after load and after every completed reload the base directory
\* exists, and so does baseDir/subdir of every user that declares a subdir.
C33_DirectoriesExist ==
    /\ Exists(fs, Clean(BaseOf(Dir)))
    /\ \A u \in Keys(Users) :
         Users[u].Subdir # NoSubdir => Exists(fs, Join(<<BaseOf(Dir), Users[u].Subdir[1]>>))

(***************************************************************************)
(* SpecReload: load, then reloads of the configuration file, each recorded *)
(* in probe together with the configuration it started from                *)
(***************************************************************************)
ReloadUsers ==
    {DeclUser("password", sub, perm) :
       sub \in {NoSubdir, JailS},
       perm \in {PermOf({"r"}), PermOf({"c", "r", "u", "d"}), TooLong, <<>>}}
    \cup {DeclUser("other", NoSubdir, PermOf({"c", "r", "u", "d"}))}
ReloadDecls ==
    {[Users |-> us, Log |-> LogAll(b)] :
       us \in {NilMap, OneUser("bar", PlainBar)}
              \cup {OneUser("foo", rec) : rec \in ReloadUsers}
              \cup {TwoUsers(rec, PlainBar) : rec \in ReloadUsers},
       b \in BOOLEAN}

\* the file changes and handleConfigUpdate runs
ReloadCall == probe = InitProbe /\ handleConfigUpdate(ReloadDecls, TRUE)

NextReload ==
    \/ ReloadCall
    \/ Return

SpecReload == Started(ReloadDecls) /\ [][NextReload]_vars

\* C8: when handleConfigUpdate cannot read or parse the changed file, or
\* updateConfig panics while merging, the live configuration afterwards
\* (user map, every user record, logging toggles) equals the one before.
C8_FailedReloadDiscarded ==
    (/\ probe.op = "reload"
     /\ (~probe.readOk \/ probe.outcome \in {"unmarshal error", "panic"}))
        => LiveView = probe.pre

\* C24: a reload whose updated configuration omits users of the live store
\* and declares the others as they stand removes exactly the omitted users
\* and leaves every other record (hash, subdir, permission string, flags)
\* as it was.
C24_OmittedUserRemoved ==
    (/\ probe.op = "reload"
     /\ probe.outcome = "done"
     /\ Keys(probe.updated.Users) \subseteq Keys(probe.pre.Users)
     /\ Keys(probe.updated.Users) # Keys(probe.pre.Users)
     /\ \A u \in Keys(probe.updated.Users) :
          LET decl == probe.updated.Users[u]
              live == probe.pre.Users[u]
          IN /\ decl.Password = live.Password
             /\ decl.Subdir = live.Subdir
             /\ decl.Permissions = live.Permissions
             /\ live.Crud # NoCrud => live.Crud.Crud = ToLower(decl.Permissions))
        => /\ Keys(Users) = Keys(probe.updated.Users)
           /\ \A u \in Keys(Users) : LiveView.Users[u] = probe.pre.Users[u]

\* foo and bar were live, the file now declares foo alone, as before
C24_Witness ==
    /\ probe.op = "reload"
    /\ probe.outcome = "done"
    /\ Keys(probe.pre.Users) = {"foo", "bar"}
    /\ Keys(probe.updated.Users) = {"foo"}
    /\ Keys(Users) = {"foo"}
    /\ probe.pre.Users["foo"].Crud # NoCrud
    /\ probe.pre.Users["foo"].Crud.Read
    /\ LiveView.Users["foo"] = probe.pre.Users["foo"]

\* C25: after updateConfig has run, the usernames of the live store are
\* those of the updated configuration, and each user's hash, subdir and
\* permission string are those of the updated configuration, whatever the
\* store held before, no users included.
C25_StoreEqualsUpdated ==
    (probe.op = "reload" /\ probe.outcome # "unmarshal error")
        => /\ Keys(Users) = Keys(probe.updated.Users)
           /\ \A u \in Keys(Users) \cap Keys(probe.updated.Users) :
                LET decl == probe.updated.Users[u]
                    live == LiveView.Users[u]
                IN /\ live.Password = decl.Password
                   /\ live.Subdir = decl.Subdir
                   /\ \/ live.Permissions = decl.Permissions
                      \/ live.Crud # NoCrud /\ live.Crud.Crud = ToLower(decl.Permissions)

\* C26: a reload in which one user's permission string is malformed runs
\* to its end without a crash and leaves every other user's record and
\* flags as the reload without that entry does (the entry well formed, or
\* left out).
C26_MalformedEntryIsolated ==
    [][(probe.op = "none" /\ probe'.op = "reload" /\ probe'.outcome # "unmarshal error")
       => \A u \in Keys(probe'.updated.Users) :
            CrudLengthInvalid(probe'.updated.Users[u].Permissions)
              => LET upd == probe'.updated
                     same(alt) ==
                       alt.outcome = "done"
                         => /\ Keys(Users') \ {u} = Keys(alt.Users) \ {u}
                            /\ \A v \in Keys(Users') \ {u} :
                                 UserView(cruds', Users'[v])
                                   = UserView(alt.cruds, alt.Users[v])
                 IN /\ probe'.outcome = "done"
                    /\ same(updateConfig(Users, cruds, Log, fs, Dir,
                                         [upd EXCEPT !.Users[u].Permissions = <<"r">>], req))
                    /\ same(updateConfig(Users, cruds, Log, fs, Dir,
                                         [upd EXCEPT !.Users = DeleteUser(upd.Users, u)], req))]_vars

\* C27: after a reload that carries a malformed permission string for an
\* existing user, that user holds the permission set held before it.
C27_MalformedKeepsPermissions ==
    (probe.op = "reload" /\ probe.outcome = "done")
        => \A u \in Keys(probe.pre.Users) \cap Keys(probe.updated.Users) :
             CrudLengthInvalid(probe.updated.Users[u].Permissions)
               => LET before == probe.pre.Users[u].Crud
                      after == LiveView.Users[u].Crud
                  IN IF before = NoCrud THEN after = NoCrud
                     ELSE /\ after # NoCrud
                          /\ after.Create = before.Create /\ after.Read = before.Read
                          /\ after.Update = before.Update /\ after.Delete = before.Delete

\* C35: every user record of the live store has a permission set, users
\* first introduced by a reload included, and after a reload its four flags
\* are the parse of the permission string the file declares for the user.
C35_PermissionSetsPresent ==
    /\ \A u \in Keys(Users) : Users[u].Crud # NilPtr
    /\ (probe.op = "reload" /\ probe.outcome = "done")
         => \A u \in Keys(Users) \cap Keys(probe.updated.Users) :
              LET perm == ToLower(probe.updated.Users[u].Permissions)
                  crud == LiveView.Users[u].Crud
              IN (crud # NoCrud /\ ~CrudLengthInvalid(perm))
                   => /\ crud.Create = Contains(perm, "c")
                      /\ crud.Read = Contains(perm, "r")
                      /\ crud.Update = Contains(perm, "u")
                      /\ crud.Delete = Contains(perm, "d")

\* C29: after a reload is done the logging toggles error, create, read,
\* update and delete of the live configuration are those of the updated
\* configuration.
C29_LogTogglesFollow ==
    (probe.op = "reload" /\ probe.outcome = "done")
        => /\ Log.Error = probe.updated.Log.Error
           /\ Log.Create = probe.updated.Log.Create
           /\ Log.Read = probe.updated.Log.Read
           /\ Log.Update = probe.updated.Log.Update
           /\ Log.Delete = probe.updated.Log.Delete

\* C40: updateConfig applied a second time with the same updated
\* configuration runs to its end and leaves the live store (user set, every
\* user's hash, subdir and permission flags, the logging toggles) as the
\* first application left it.
C40_ReloadIdempotent ==
    [][(probe.op = "none" /\ probe'.op = "reload" /\ probe'.outcome = "done")
       => LET again == updateConfig(Users', cruds', Log', fs', Dir, probe'.updated, req)
          IN /\ again.outcome = "done"
             /\ ConfigView(again.Users, again.cruds, again.Log)
                  = ConfigView(Users', cruds', Log')]_vars

\* a reload that replaced the permission set of a user already present,
\* added another user and switched the logging toggles
C40_Witness ==
    /\ probe.op = "reload" /\ probe.outcome = "done"
    /\ Keys(probe.pre.Users) = {"foo"}
    /\ Keys(Users) = {"foo", "bar"}
    /\ probe.pre.Users["foo"].Crud # NoCrud
    /\ LiveView.Users["foo"].Crud # probe.pre.Users["foo"].Crud
    /\ probe.pre.Log.Create # Log.Create

(***************************************************************************)
(* Spec: requests interleaved with a reload that runs write by write       *)
(***************************************************************************)
StepDecls ==
    {[Users |-> OneUser("foo", DeclUser("password", NoSubdir, perm)),
      Log |-> LogAll(FALSE)] : perm \in {PermOf({"r"}), PermOf({"c", "r", "u", "d"})}}

Init == Started(StepDecls)

Next ==
    \/ HandleConfigUpdate(StepDecls)
    \/ UpdateConfigRemove
    \/ UpdateConfigMerge
    \/ UpdateConfigSubdir
    \/ UpdateConfigCrud
    \/ UpdateConfigFormat
    \/ UpdateConfigDirs
    \/ UpdateConfigLog
    \/ HandleAuth
    \/ HandleAuthorize
    \/ HandleGate
    \/ EngineRemoveAll
    \/ EngineRename
    \/ EngineFinish
    \/ HandlerReturn

Spec == Init /\ [][Next]_vars

\* the user map as a reader finds it, every permission set dereferenced
UsersSeen(us, h) == ConfigView(us, h, ZeroLog).Users
\* what the running reload started from, and what it ends with
ReloadPre == UsersSeen(reload.pre.Users, reload.pre.cruds)
ReloadPost ==
    LET post == updateConfig(reload.pre.Users, reload.pre.cruds, reload.pre.Log,
                             fs, Dir, reload.updated, IdleReq)
    IN UsersSeen(post.Users, post.cruds)

\* C7: whatever the interleaving, a request step (authenticate, method
\* gate, capability) that runs while updateConfig is running finds the user
\* map and every user record either as before the reload or as fully merged.
C7_ReloadAtomic ==
    [][(reload.pc # "idle" /\ req' # req /\ req'.pc # "idle" /\ ~IsPreflight(req'))
       => UsersSeen(Users, cruds) \in {ReloadPre, ReloadPost}]_vars

LittleJohn == <<Slash, "l", "i", "t", "t", "l", "e", "j", "o", "h", "n">>
FsDecls ==
    {[Users |-> us, Log |-> LogAll(b)] :
       us \in {NilMap}
              \cup {OneUser("foo", DeclUser("password", sub, perm)) :
                      sub \in {NoSubdir, <<LittleJohn>>},
                      perm \in AllPerms \cup {TooLong}},
       b \in BOOLEAN}

FsNames == {<<Slash>>, <<Slash, "x">>, <<Slash, "y">>, <<Slash, NUL>>}

\* the identity handle puts into the context of the calls
FsIdentity ==
    IF AuthenticationNeeded(Users)
    THEN [Username |-> "foo", Authenticated |-> TRUE, CrudType |-> Users["foo"].Crud]
    ELSE NoAuthInfo

FsCall(r, flag) ==
    /\ probe = InitProbe
    /\ fs' = r.fs
    /\ cruds' = r.cruds
    /\ probe' = [op |-> r.op, name |-> r.name, newName |-> r.newName, flag |-> flag,
                 phys |-> r.phys, newPhys |-> r.newPhys, err |-> r.err, got |-> r.got,
                 panic |-> r.panic, pre |-> fs,
                 crud |-> LiveCrud(Users, cruds, resolveUser(FsIdentity))]
    /\ UNCHANGED <<Dir, Users, Log, req, reload>>

FsMkdir ==
    \E name \in FsNames :
      FsCall(Mkdir(FsIdentity, name, Dir, Users, cruds, fs, Log), ReadOnly)

FsOpenFile ==
    \E name \in FsNames,
       flag \in {ReadOnly, [access |-> "O_WRONLY", create |-> FALSE],
                 [access |-> "O_RDWR", create |-> FALSE],
                 [access |-> "O_RDWR", create |-> TRUE]} :
      FsCall(OpenFile(FsIdentity, name, flag, Dir, Users, cruds, fs, Log), flag)

FsRemoveAll ==
    \E name \in FsNames :
      FsCall(RemoveAll(FsIdentity, name, Dir, Users, cruds, fs), ReadOnly)

FsRename ==
    \E oldName \in FsNames, newName \in FsNames :
      FsCall(Rename(FsIdentity, oldName, newName, Dir, Users, cruds, fs), ReadOnly)

FsStat ==
    \E name \in FsNames :
      FsCall(Stat(FsIdentity, name, Dir, Users, cruds, fs, Log), ReadOnly)

\* the method gate for an authenticated caller
FsGate ==
    /\ probe = InitProbe
    /\ FsIdentity # NoAuthInfo
    /\ \E method \in Methods, name \in FsNames :
         LET g == handleHeadersForAuthorization(method, name, FsIdentity,
                                                Users, cruds, fs, Dir)
         IN probe' = [op |-> "gate", method |-> method, name |-> name,
                      codes |-> g.codes, err |-> g.err, ok |-> g.ok, panic |-> g.panic,
                      pre |-> fs,
                      crud |-> LiveCrud(Users, cruds, resolveUser(FsIdentity))]
    /\ UNCHANGED <<Dir, Users, Log, cruds, fs, req, reload>>

NextFs ==
    \/ FsGate
    \/ FsMkdir
    \/ FsOpenFile
    \/ FsRemoveAll
    \/ FsRename
    \/ FsStat
    \/ Return

SpecFs == Started(FsDecls) /\ [][NextFs]_vars

\* the caller of the recorded call holds the capability
Holds(flag) == probe.crud # NoCrud /\ probe.crud[flag]
FsCalled(op) == probe.op = op /\ probe.phys # <<>>
FsJail == JailRoot(FsIdentity, Dir, Users)

\* C12: Mkdir, and OpenFile with a write flag, create and open nothing for
\* a caller who lacks create; a caller holding create creates a directory
\* that does not exist yet and whose parent directory exists.
C12_CreateGate ==
    /\ (/\ probe.op \in {"Mkdir", "OpenFile"}
        /\ probe.op = "OpenFile" => WantsWrite(probe.flag)
        /\ ~Holds("Create"))
         => (fs = probe.pre /\ ~probe.got)
    /\ (/\ FsCalled("Mkdir")
        /\ Holds("Create")
        /\ probe.phys \notin probe.pre
        /\ IsDir(probe.pre, Parent(probe.phys)))
         => (probe.err = ErrNil /\ IsDir(fs, probe.phys))

\* a caller holding create has made the directory x
C12_Witness ==
    /\ FsCalled("Mkdir")
    /\ probe.name = <<Slash, "x">>
    /\ Holds("Create")
    /\ probe.phys \notin probe.pre
    /\ probe.err = ErrNil
    /\ IsDir(fs, probe.phys)

\* C13: for an authenticated caller who lacks create, OpenFile with a write
\* flag returns no file and no error, whether or not the target exists.
C13_SoftDenialOnOpen ==
    (/\ FsCalled("OpenFile")
     /\ WantsWrite(probe.flag)
     /\ Holds("Read")
     /\ ~Holds("Create"))
        => (~probe.got /\ probe.err = ErrNil /\ ~probe.panic)

C15_StatGate ==
    FsCalled("Stat")
        => /\ (probe.crud # NoCrud /\ ~probe.crud.Read)
                => (probe.err # ErrNil /\ ~probe.got)
           /\ (Holds("Read") /\ ~Holds("Create") /\ probe.phys \notin probe.pre)
                => (~probe.got /\ probe.err = ErrNil)
           /\ (Holds("Read") /\ Holds("Create") /\ probe.phys \notin probe.pre)
                => (~probe.got /\ probe.err = "ErrNotExist")
           /\ (Holds("Read") /\ probe.phys \in probe.pre)
                => (probe.got /\ probe.err = ErrNil)


\* C16: for the user with permissions cru and subdir /littlejohn, a DELETE
\* of /x is denied by the method gate and RemoveAll of /x deletes nothing;
\* a PUT of the not yet existing /x passes the gate, OpenFile with create
\* flags succeeds and the file exists at baseDir/littlejohn/x.
C16_EndToEnd ==
    (/\ Lookup(Users, "foo") # NoUser
     /\ Users["foo"].Permissions = PermOf({"c", "r", "u"})
     /\ Users["foo"].Subdir = <<LittleJohn>>
     /\ probe.op # "none" /\ probe.name = <<Slash, "x">>)
        => /\ (probe.op = "gate" /\ probe.method = "DELETE")
                => (~probe.ok /\ probe.codes = <<403>>)
           /\ probe.op = "RemoveAll" => (probe.err # ErrNil /\ fs = probe.pre)
           /\ (probe.op = "gate" /\ probe.method = "PUT") => (probe.ok /\ ~probe.err)
           /\ (/\ probe.op = "OpenFile"
               /\ probe.flag = [access |-> "O_RDWR", create |-> TRUE]
               /\ probe.phys \notin probe.pre)
                => /\ probe.got /\ probe.err = ErrNil
                   /\ probe.phys = BaseDir \o LittleJohn \o <<Slash, "x">>
                   /\ IsFile(fs, probe.phys)

\* C21: with no users declared the capabilities the engine calls are not
\* refused for want of an identified user and do not crash.
C21_BypassUsable ==
    (/\ probe.op \in {"Mkdir", "OpenFile", "RemoveAll", "Rename", "Stat"}
     /\ ~AuthenticationNeeded(Users)
     /\ probe.phys # <<>>)
        => (~probe.panic /\ probe.err # "no user identified")

\* C23: for a name rejected by the path validation Mkdir, OpenFile,
\* RemoveAll, Rename (either name) and Stat return the not-exist error,
\* whoever calls and whatever the caller's flags are, and touch nothing.
C23_InvalidNameNotFound ==
    (/\ probe.op \in {"Mkdir", "OpenFile", "RemoveAll", "Rename", "Stat"}
     /\ Contains(probe.name, NUL) \/ Contains(probe.newName, NUL))
        => /\ probe.err = "ErrNotExist"
           /\ ~probe.got
           /\ ~probe.panic
           /\ fs = probe.pre

\* a caller holding every flag has renamed x, which exists, to the name
\* with the NUL byte
C23_Witness ==
    /\ probe.op = "Rename"
    /\ Holds("Create") /\ Holds("Read") /\ Holds("Update") /\ Holds("Delete")
    /\ probe.phys \in probe.pre
    /\ probe.name = <<Slash, "x">>
    /\ Contains(probe.newName, NUL)
    /\ probe.err = "ErrNotExist"

\* C28: no configuration with a user whose permission string is missing
\* or malformed comes out of ParseConfig.
C28_StartupRejectsBadPermissions ==
    \A u \in Keys(Users) : ~CrudLengthInvalid(Users[u].Permissions)

\* C36: a capability run with the same identity, arguments and disk under
\* a configuration that differs only in the logging toggles returns the
\* same result (error or none, file or info or none) and leaves the same
\* disk.  RemoveAll, Rename and the gate read no toggle.
C36_LogTogglesNeutral ==
    [][(probe.op = "none" /\ probe'.op \in {"Mkdir", "OpenFile", "Stat"})
       => LET other == LogAll(~Log.Create)
              alt == CASE probe'.op = "Mkdir" ->
                            Mkdir(FsIdentity, probe'.name, Dir, Users, cruds, fs, other)
                       [] probe'.op = "OpenFile" ->
                            OpenFile(FsIdentity, probe'.name, probe'.flag, Dir, Users,
                                     cruds, fs, other)
                       [] probe'.op = "Stat" ->
                            Stat(FsIdentity, probe'.name, Dir, Users, cruds, fs, other)
          IN /\ alt.panic = probe'.panic
             /\ (alt.err = ErrNil) = (probe'.err = ErrNil)
             /\ alt.got = probe'.got
             /\ alt.fs = fs']_vars

(***************************************************************************)
(* SpecCrud: FormatCrud on the permission object of a user                 *)
(***************************************************************************)
MaxCrudLen == 5
CrudObjects ==
    {[Crud |-> s, Create |-> c, Read |-> r, Update |-> u, Delete |-> d] :
        s \in SeqsUpTo({"C", "r", "U", "d", "x"}, MaxCrudLen),
        c \in BOOLEAN, r \in BOOLEAN, u \in BOOLEAN, d \in BOOLEAN}

\* the user foo holds a CrudType with any string and any flags
InitCrud ==
    /\ Dir = BaseDir
    /\ Users = OneUser("foo", [DeclUser("password", NoSubdir, <<>>) EXCEPT !.Crud = 1])
    /\ \E obj \in CrudObjects :
         cruds = [i \in 1..NumCruds |-> IF i = 1 THEN obj ELSE FreeCell]
    /\ Log = LogAll(FALSE)
    /\ fs = createBaseAndUserDirectoriesIfNeeded(DiskBefore, Dir, Users)
    /\ req = IdleReq
    /\ reload = IdleReload
    /\ probe = InitProbe

\* FormatCrud(ctx, "foo", cfg), at most twice in a row on the same object
CrudFormat ==
    /\ probe.op = "none" \/ (probe.op = "FormatCrud" /\ probe.n = 1)
    /\ LET r == FormatCrud(Users, cruds, "foo")
       IN /\ cruds' = r.h
          /\ probe' = [op |-> "FormatCrud", pre |-> cruds[1], err |-> r.err,
                       n |-> IF probe.op = "none" THEN 1 ELSE 2]
    /\ UNCHANGED <<Dir, Users, Log, fs, req, reload>>

NextCrud ==
    \/ CrudFormat
    \/ Return

SpecCrud == InitCrud /\ [][NextCrud]_vars

Occurs(s, lower, upper) == \E i \in 1..Len(s) : s[i] \in {lower, upper}

\* C17: on a string of 1 to 4 characters FormatCrud returns no error and
\* sets exactly the flags whose letter c, r, u, d occurs in it in either
\* case, whatever else the string holds; run again on its own result it
\* changes nothing.
C17_FormatCrudFlags ==
    (probe.op = "FormatCrud" /\ Len(probe.pre.Crud) \in 1..4)
        => /\ probe.err = ErrNil
           /\ cruds[1].Create = Occurs(probe.pre.Crud, "c", "C")
           /\ cruds[1].Read = Occurs(probe.pre.Crud, "r", "R")
           /\ cruds[1].Update = Occurs(probe.pre.Crud, "u", "U")
           /\ cruds[1].Delete = Occurs(probe.pre.Crud, "d", "D")
           /\ probe.n = 2 => cruds[1] = probe.pre

\* a second run on the result of a string of mixed case with a foreign letter
C17_Witness ==
    /\ probe.op = "FormatCrud"
    /\ probe.n = 2
    /\ probe.pre.Crud = <<"c", "x", "d">>
    /\ probe.err = ErrNil
    /\ cruds[1].Create /\ cruds[1].Delete /\ ~cruds[1].Read /\ ~cruds[1].Update

\* C18: on a string of length 0 or of more than 4 characters FormatCrud
\* returns an error and leaves the four flags false, whatever they were.
C18_FormatCrudInvalid ==
    (probe.op = "FormatCrud" /\ Len(probe.pre.Crud) \notin 1..4)
        => /\ probe.err # ErrNil
           /\ ~cruds[1].Create /\ ~cruds[1].Read /\ ~cruds[1].Update /\ ~cruds[1].Delete

\* an object of five letters with all flags set has been cleared
C18_Witness ==
    /\ probe.op = "FormatCrud"
    /\ probe.n = 1
    /\ Len(probe.pre.Crud) = 5
    /\ probe.pre.Create /\ probe.pre.Read /\ probe.pre.Update /\ probe.pre.Delete
    /\ probe.err # ErrNil
    /\ ~cruds[1].Create /\ ~cruds[1].Read /\ ~cruds[1].Update /\ ~cruds[1].Delete

(***************************************************************************)
(* SpecAuth: authenticate called with any credentials, between reloads     *)
(***************************************************************************)
AuthCall ==
    /\ probe = InitProbe
    /\ \E username \in UserInputs, password \in PasswordInputs :
         LET res == authenticate(Users, username, password)
         IN probe' = [op |-> "authenticate", username |-> username,
                      password |-> password, panic |-> res.panic, err |-> res.err,
                      info |-> res.info, compared |-> res.compared]
    /\ UNCHANGED <<Dir, Users, Log, cruds, fs, req, reload>>

NextAuth ==
    \/ AuthCall
    \/ Return
    \/ (probe = InitProbe /\ handleConfigUpdate(ServeReloadDecls, FALSE))

SpecAuth == Started(ServeDecls) /\ [][NextAuth]_vars

\* C19: with no users declared authenticate returns, for every username
\* and password, an identity that is not authenticated, has the empty
\* username and no permission, and a nil error.
C19_NoUsersNoIdentity ==
    (probe.op = "authenticate" /\ MapLen(Users) = 0)
        => /\ ~probe.panic
           /\ probe.err = ErrNil
           /\ probe.info # NoAuthInfo
           /\ ~probe.info.Authenticated
           /\ probe.info.Username = ""
           /\ LET c == Deref(cruds, probe.info.CrudType)
              IN ~c.Create /\ ~c.Read /\ ~c.Update /\ ~c.Delete

\* the last user has been removed and a full pair of credentials is tried
C19_Witness ==
    /\ probe.op = "authenticate"
    /\ Users # NilMap /\ MapLen(Users) = 0
    /\ probe.username = "foo" /\ probe.password = "password"
    /\ probe.err = ErrNil
    /\ ~probe.info.Authenticated

====
